---------------------------- MODULE Spec2Model ----------------------------
(***************************************************************************)
(* Model of package pipebuf: a byte pipe with a fixed-capacity buffer      *)
(* between one write handle and one read handle, guarded by one mutex and  *)
(* two condition variables (writerWait, readerWait).                       *)
(*                                                                         *)
(* Every step of the model is one critical section of the code: from the   *)
(* acquisition of p.mu (by a call, or by a goroutine returning from        *)
(* sync.Cond.Wait) to its release (by a return, or by the next Wait).      *)
(***************************************************************************)
EXTENDS Integers, Sequences, FiniteSets, TLC

(***************************************************************************)
(* Bounds of the model.                                                    *)
(***************************************************************************)
MaxCap == 2        \* largest buffer size handed to Pipe
MaxBytes == 3      \* total number of payload bytes handed to Write
MaxSrc == 3        \* longest payload of one Write
MaxDst == 2        \* longest destination of one Read
MaxXfer == 3       \* most bytes the source of a bulk transfer can supply
StageLen == 2      \* length of copyBuffered's staging buffer (32*1024 in the code)
MaxChunkBytes == 6  \* total number of bytes handed to the chunk operations

(***************************************************************************)
(* Error values.  NoErr is Go's nil error.                                 *)
(***************************************************************************)
NoErr == "nil"
EOF == "EOF"
ErrClosedPipe == "ErrClosedPipe"
ErrShortWrite == "ErrShortWrite"
CustomErrs == {"e1", "e2"}
ErrArgs == {NoErr} \cup CustomErrs      \* arguments of CloseWithError

(***************************************************************************)
(* Goroutines calling into the pipe.  Writers and Readers are the callers  *)
(* of the intended use, one per side; AllWriters and AllReaders add a      *)
(* second caller per side, which only the specifications with several      *)
(* callers per side let run.                                               *)
(***************************************************************************)
W1 == "w1"
R1 == "r1"
W2 == "w2"
R2 == "r2"
Writers == {W1}
Readers == {R1}
AllWriters == {W1, W2}
AllReaders == {R1, R2}
Procs == AllWriters \cup AllReaders

VARIABLES
    p,          \* the pipe struct
    pc,         \* position of each goroutine: "idle", "parked", "woken"
    cur,        \* locals of the call in progress of each goroutine
    ret,        \* what the call that returned in the last step returned
    nextVal,    \* number of payload bytes handed to Write so far
    written,    \* history: bytes accepted into the buffer, in order
    delivered,  \* history: bytes returned by Read, in order
    firstOp,    \* history: first close operation on each side
    firstCWE,   \* history: argument of the first CloseWithError on each side
    xfer,       \* one run of copyBuffered: its locals, its source and its sink
    ring,       \* a ringBuffer struct
    chunk       \* the last chunk operation done on p's buffer and on ring

vars == <<p, pc, cur, ret, nextVal, written, delivered, firstOp, firstCWE,
          xfer, ring, chunk>>

Min(a, b) == IF a < b THEN a ELSE b

Cap(q) == Len(q.buffer)

(***************************************************************************)
(* func newPipe(size int) *pipe: len(buffer) = 0, cap(buffer) = size.      *)
(***************************************************************************)
newPipe(size) ==
    [ buffer          |-> [i \in 1..size |-> 0],
      len             |-> 0,
      writePos        |-> 0,
      readPos         |-> 0,
      readerClosed    |-> FALSE,
      writerClosed    |-> FALSE,
      readerClosedErr |-> NoErr,
      writerClosedErr |-> NoErr ]

\* Pipe without the bufferSize <= 0 test.
Pipe_NoCoerce(bufferSize) == newPipe(bufferSize)

(***************************************************************************)
(* func Pipe(bufferSize int): a size <= 0 becomes 1.                       *)
(***************************************************************************)
Pipe(bufferSize) == newPipe(IF bufferSize <= 0 THEN 1 ELSE bufferSize)

\* empty that compares the two cursors, as a ring with a spare slot would.
empty_CursorsEqual(q) == q.readPos = q.writePos

empty(q) == q.readPos = q.len

\* full that only compares the two cursors.
full_CursorsOnly(q) == q.readPos = q.writePos

full(q) == q.readPos < q.len /\ q.readPos = q.writePos

(***************************************************************************)
(* copy(dst, src) on sequences: the first Min(dstLen, Len(src)) bytes.     *)
(***************************************************************************)
Slice(s, lo, hi) == SubSeq(s, lo + 1, hi)       \* Go's s[lo:hi]

\* readChunkLocked that copies from buffer[readPos:cap(buffer)].
readChunkLocked_ToCap(q, dstLen) ==
    LET avail == Slice(q.buffer, q.readPos, Cap(q))
        n     == Min(dstLen, Len(avail))
        rp    == q.readPos + n
    IN  [ n    |-> n,
          data |-> SubSeq(avail, 1, n),
          p    |-> IF rp = Cap(q)
                     THEN [q EXCEPT !.readPos = 0, !.len = q.writePos]
                     ELSE [q EXCEPT !.readPos = rp] ]

\* readChunkLocked that forgets to trim len(buffer) when readPos wraps.
readChunkLocked_NoTrim(q, dstLen) ==
    LET avail == Slice(q.buffer, q.readPos, q.len)
        n     == Min(dstLen, Len(avail))
        rp    == q.readPos + n
    IN  [ n    |-> n,
          data |-> SubSeq(avail, 1, n),
          p    |-> IF rp = Cap(q)
                     THEN [q EXCEPT !.readPos = 0]
                     ELSE [q EXCEPT !.readPos = rp] ]

(***************************************************************************)
(* func (p *pipe) readChunkLocked(dst []byte) int                          *)
(***************************************************************************)
readChunkLocked(q, dstLen) ==
    LET avail == Slice(q.buffer, q.readPos, q.len)
        n     == Min(dstLen, Len(avail))
        rp    == q.readPos + n
    IN  [ n    |-> n,
          data |-> SubSeq(avail, 1, n),
          p    |-> IF rp = Cap(q)
                     THEN [q EXCEPT !.readPos = 0, !.len = q.writePos]
                     ELSE [q EXCEPT !.readPos = rp] ]

\* writeChunkLocked that never extends len(buffer).
writeChunkLocked_KeepLen(q, src) ==
    LET end         == IF q.writePos < q.readPos THEN q.readPos ELSE Cap(q)
        available   == Min(end - q.writePos, Len(src))
        newBuf      == [i \in 1..Cap(q) |->
                          IF i > q.writePos /\ i <= q.writePos + available
                            THEN src[i - q.writePos]
                            ELSE q.buffer[i]]
        wp          == q.writePos + available
    IN  [ n |-> available,
          p |-> [q EXCEPT !.buffer   = newBuf,
                          !.writePos = IF wp = Cap(q) THEN 0 ELSE wp] ]

(***************************************************************************)
(* func (p *pipe) writeChunkLocked(src []byte) int                         *)
(***************************************************************************)
writeChunkLocked(q, src) ==
    LET end         == IF q.writePos < q.readPos THEN q.readPos ELSE Cap(q)
        available   == Min(end - q.writePos, Len(src))
        requiredLen == q.writePos + available
        newLen      == IF requiredLen > q.len THEN requiredLen ELSE q.len
        newBuf      == [i \in 1..Cap(q) |->
                          IF i > q.writePos /\ i <= q.writePos + available
                            THEN src[i - q.writePos]
                            ELSE q.buffer[i]]
        wp          == q.writePos + available
    IN  [ n |-> available,
          p |-> [q EXCEPT !.buffer   = newBuf,
                          !.len      = newLen,
                          !.writePos = IF wp = Cap(q) THEN 0 ELSE wp] ]

(***************************************************************************)
(* Wait stands for reaching sync.Cond.Wait inside a waitFor...Locked loop: *)
(* the goroutine releases p.mu and parks until a Signal or a Broadcast.    *)
(***************************************************************************)
Wait == "Wait"

\* waitForReadableLocked that looks at writerClosed before the buffer.
waitForReadableLocked_WriterClosedFirst(q) ==
    IF q.writerClosed /\ ~q.readerClosed
      THEN (IF q.readerClosedErr # NoErr THEN q.readerClosedErr ELSE EOF)
    ELSE IF ~empty(q) THEN NoErr
    ELSE IF q.readerClosed
      THEN (IF q.writerClosedErr # NoErr THEN q.writerClosedErr ELSE ErrClosedPipe)
    ELSE Wait

\* waitForReadableLocked that reports the end of the stream as a nil error.
waitForReadableLocked_EOFAsNil(q) ==
    IF ~empty(q) THEN NoErr
    ELSE IF q.readerClosed
      THEN (IF q.writerClosedErr # NoErr THEN q.writerClosedErr ELSE ErrClosedPipe)
    ELSE IF q.writerClosed
      THEN (IF q.readerClosedErr # NoErr THEN q.readerClosedErr ELSE NoErr)
    ELSE Wait

\* waitForReadableLocked with the tests of the two closed flags swapped.
waitForReadableLocked_WriterBeforeReader(q) ==
    IF ~empty(q) THEN NoErr
    ELSE IF q.writerClosed
      THEN (IF q.readerClosedErr # NoErr THEN q.readerClosedErr ELSE EOF)
    ELSE IF q.readerClosed
      THEN (IF q.writerClosedErr # NoErr THEN q.writerClosedErr ELSE ErrClosedPipe)
    ELSE Wait

\* waitForReadableLocked that looks at readerClosed before the buffer.
waitForReadableLocked_ReaderClosedFirst(q) ==
    IF q.readerClosed
      THEN (IF q.writerClosedErr # NoErr THEN q.writerClosedErr ELSE ErrClosedPipe)
    ELSE IF ~empty(q) THEN NoErr
    ELSE IF q.writerClosed
      THEN (IF q.readerClosedErr # NoErr THEN q.readerClosedErr ELSE EOF)
    ELSE Wait

\* waitForReadableLocked without the readerClosed test.
waitForReadableLocked_NoReaderCheck(q) ==
    IF ~empty(q) THEN NoErr
    ELSE IF q.writerClosed
      THEN (IF q.readerClosedErr # NoErr THEN q.readerClosedErr ELSE EOF)
    ELSE Wait

\* waitForReadableLocked without the writerClosed test.
waitForReadableLocked_NoWriterCheck(q) ==
    IF ~empty(q) THEN NoErr
    ELSE IF q.readerClosed
      THEN (IF q.writerClosedErr # NoErr THEN q.writerClosedErr ELSE ErrClosedPipe)
    ELSE Wait

(***************************************************************************)
(* func (p *pipe) waitForReadableLocked() error, up to its first Wait.     *)
(***************************************************************************)
waitForReadableLocked(q) ==
    IF ~empty(q) THEN NoErr
    ELSE IF q.readerClosed
      THEN (IF q.writerClosedErr # NoErr THEN q.writerClosedErr ELSE ErrClosedPipe)
    ELSE IF q.writerClosed
      THEN (IF q.readerClosedErr # NoErr THEN q.readerClosedErr ELSE EOF)
    ELSE Wait

\* waitForWritableLocked that looks for free space before readerClosed.
waitForWritableLocked_SpaceFirst(q) ==
    IF ~full(q) /\ ~q.writerClosed THEN NoErr
    ELSE IF q.readerClosed
      THEN (IF q.writerClosedErr # NoErr THEN q.writerClosedErr ELSE ErrClosedPipe)
    ELSE IF q.writerClosed THEN ErrClosedPipe
    ELSE Wait

\* waitForWritableLocked that hands the writer its own close error.
waitForWritableLocked_OwnError(q) ==
    IF q.readerClosed
      THEN (IF q.writerClosedErr # NoErr THEN q.writerClosedErr ELSE ErrClosedPipe)
    ELSE IF q.writerClosed
      THEN (IF q.readerClosedErr # NoErr THEN q.readerClosedErr ELSE ErrClosedPipe)
    ELSE IF ~full(q) THEN NoErr
    ELSE Wait

\* waitForWritableLocked without the readerClosed test.
waitForWritableLocked_NoReaderCheck(q) ==
    IF q.writerClosed THEN ErrClosedPipe
    ELSE IF ~full(q) THEN NoErr
    ELSE Wait

\* waitForWritableLocked that never waits for free space.
waitForWritableLocked_NoFullCheck(q) ==
    IF q.readerClosed
      THEN (IF q.writerClosedErr # NoErr THEN q.writerClosedErr ELSE ErrClosedPipe)
    ELSE IF q.writerClosed THEN ErrClosedPipe
    ELSE NoErr

\* waitForWritableLocked without the writerClosed test.
waitForWritableLocked_NoWriterCheck(q) ==
    IF q.readerClosed
      THEN (IF q.writerClosedErr # NoErr THEN q.writerClosedErr ELSE ErrClosedPipe)
    ELSE IF ~full(q) THEN NoErr
    ELSE Wait

(***************************************************************************)
(* func (p *pipe) waitForWritableLocked() error, up to its first Wait.     *)
(***************************************************************************)
waitForWritableLocked(q) ==
    IF q.readerClosed
      THEN (IF q.writerClosedErr # NoErr THEN q.writerClosedErr ELSE ErrClosedPipe)
    ELSE IF q.writerClosed THEN ErrClosedPipe
    ELSE IF ~full(q) THEN NoErr
    ELSE Wait

\* closeReaderLocked that also throws the buffered bytes away.
closeReaderLocked_Discard(q, err, withErr) ==
    LET q1 == [q EXCEPT !.readerClosed = TRUE, !.len = 0,
                        !.readPos = 0, !.writePos = 0]
    IN  IF withErr /\ q1.writerClosedErr = NoErr
          THEN [q1 EXCEPT !.writerClosedErr =
                              IF err = NoErr THEN ErrClosedPipe ELSE err]
          ELSE q1

\* closeReaderLocked that stores its error without any guard.
closeReaderLocked_Unguarded(q, err, withErr) ==
    [q EXCEPT !.readerClosed = TRUE,
              !.writerClosedErr = IF withErr /\ err = NoErr
                                    THEN ErrClosedPipe ELSE err]

(***************************************************************************)
(* func (p *pipe) closeReaderLocked(err error, withErr bool), without its  *)
(* two Broadcasts (see BroadcastAll).                                      *)
(***************************************************************************)
closeReaderLocked(q, err, withErr) ==
    LET q1 == [q EXCEPT !.readerClosed = TRUE]
    IN  IF withErr /\ q1.writerClosedErr = NoErr
          THEN [q1 EXCEPT !.writerClosedErr =
                              IF err = NoErr THEN ErrClosedPipe ELSE err]
          ELSE q1

\* closeWriterLocked that stores io.EOF whatever error it is given.
closeWriterLocked_DropErr(q, err, withErr) ==
    LET q1 == [q EXCEPT !.writerClosed = TRUE]
    IN  IF withErr /\ q1.readerClosedErr = NoErr
          THEN [q1 EXCEPT !.readerClosedErr = EOF]
          ELSE q1

\* closeWriterLocked without the readerClosedErr == nil guard.
closeWriterLocked_Overwrite(q, err, withErr) ==
    LET q1 == [q EXCEPT !.writerClosed = TRUE]
    IN  IF withErr
          THEN [q1 EXCEPT !.readerClosedErr = IF err = NoErr THEN EOF ELSE err]
          ELSE q1

\* closeWriterLocked that installs the error whatever withErr says.
closeWriterLocked_IgnoreWithErr(q, err, withErr) ==
    LET q1 == [q EXCEPT !.writerClosed = TRUE]
    IN  IF q1.readerClosedErr = NoErr
          THEN [q1 EXCEPT !.readerClosedErr = IF err = NoErr THEN EOF ELSE err]
          ELSE q1

\* closeWriterLocked that sets the flag of the other side.
closeWriterLocked_WrongFlag(q, err, withErr) ==
    LET q1 == [q EXCEPT !.readerClosed = TRUE]
    IN  IF withErr /\ q1.readerClosedErr = NoErr
          THEN [q1 EXCEPT !.readerClosedErr = IF err = NoErr THEN EOF ELSE err]
          ELSE q1

(***************************************************************************)
(* func (p *pipe) closeWriterLocked(err error, withErr bool), without its  *)
(* two Broadcasts.                                                         *)
(***************************************************************************)
closeWriterLocked(q, err, withErr) ==
    LET q1 == [q EXCEPT !.writerClosed = TRUE]
    IN  IF withErr /\ q1.readerClosedErr = NoErr
          THEN [q1 EXCEPT !.readerClosedErr = IF err = NoErr THEN EOF ELSE err]
          ELSE q1

\* pipe.Read that never calls p.writerWait.Signal.
ReadLocked_NoSignal(q, dstLen) ==
    LET e == waitForReadableLocked(q)
    IN  IF e = Wait
          THEN [p |-> q, park |-> TRUE, n |-> 0, err |-> NoErr,
                data |-> <<>>, sig |-> 0]
        ELSE IF e # NoErr
          THEN [p |-> q, park |-> FALSE, n |-> 0, err |-> e,
                data |-> <<>>, sig |-> 0]
        ELSE LET c == readChunkLocked(q, dstLen)
             IN  [p |-> c.p, park |-> FALSE, n |-> c.n, err |-> NoErr,
                  data |-> c.data, sig |-> 0]

(***************************************************************************)
(* The body of pipe.Read under the lock, for a non-empty destination:      *)
(* from the (re)acquisition of p.mu to the return or to the next Wait.     *)
(* sig counts the calls of p.writerWait.Signal; avail is the number of     *)
(* bytes that were readable when the wait loop was left.                   *)
(***************************************************************************)
ReadLocked(q, dstLen) ==
    LET e == waitForReadableLocked(q)
    IN  IF e = Wait
          THEN [p |-> q, park |-> TRUE, n |-> 0, err |-> NoErr,
                data |-> <<>>, sig |-> 0]
        ELSE IF e # NoErr
          THEN [p |-> q, park |-> FALSE, n |-> 0, err |-> e,
                data |-> <<>>, sig |-> 0]
        ELSE LET wasFull == full(q)
                 c       == readChunkLocked(q, dstLen)
             IN  [p |-> c.p, park |-> FALSE, n |-> c.n, err |-> NoErr,
                  data |-> c.data, sig |-> IF wasFull THEN 1 ELSE 0]

\* pipe.Write that never calls p.readerWait.Signal.
RECURSIVE WriteLocked_NoSignal(_, _, _, _, _)
WriteLocked_NoSignal(q, b, n, sig, acc) ==
    IF Len(b) = 0
      THEN [p |-> q, park |-> FALSE, b |-> b, n |-> n, err |-> NoErr,
            sig |-> sig, acc |-> acc]
    ELSE LET e == waitForWritableLocked(q)
         IN  IF e = Wait
               THEN [p |-> q, park |-> TRUE, b |-> b, n |-> n, err |-> NoErr,
                     sig |-> sig, acc |-> acc]
             ELSE IF e # NoErr
               THEN [p |-> q, park |-> FALSE, b |-> b, n |-> n, err |-> e,
                     sig |-> sig, acc |-> acc]
             ELSE LET c == writeChunkLocked(q, b)
                  IN  WriteLocked_NoSignal(c.p, SubSeq(b, c.n + 1, Len(b)),
                                           n + c.n, sig,
                                           acc \o SubSeq(b, 1, c.n))

(***************************************************************************)
(* The loop of pipe.Write under the lock: from the (re)acquisition of p.mu *)
(* to the return or to the next Wait.  b is what is left of the payload,   *)
(* n the count so far, sig the number of calls of p.readerWait.Signal and  *)
(* acc the bytes copied into the buffer during this critical section.      *)
(***************************************************************************)
\* pipe.Write that returns 0, not the bytes accepted so far, with an error.
RECURSIVE WriteLocked_ZeroOnError(_, _, _, _, _)
WriteLocked_ZeroOnError(q, b, n, sig, acc) ==
    IF Len(b) = 0
      THEN [p |-> q, park |-> FALSE, b |-> b, n |-> n, err |-> NoErr,
            sig |-> sig, acc |-> acc]
    ELSE LET e == waitForWritableLocked(q)
         IN  IF e = Wait
               THEN [p |-> q, park |-> TRUE, b |-> b, n |-> n, err |-> NoErr,
                     sig |-> sig, acc |-> acc]
             ELSE IF e # NoErr
               THEN [p |-> q, park |-> FALSE, b |-> b, n |-> 0, err |-> e,
                     sig |-> sig, acc |-> acc]
             ELSE LET wasEmpty == empty(q)
                      c        == writeChunkLocked(q, b)
                  IN  WriteLocked_ZeroOnError(c.p, SubSeq(b, c.n + 1, Len(b)),
                                              n + c.n,
                                              IF wasEmpty THEN sig + 1 ELSE sig,
                                              acc \o SubSeq(b, 1, c.n))

\* pipe.Write that does not cut the accepted bytes off b (b = b[n:]).
RECURSIVE WriteLocked_NoAdvance(_, _, _, _, _)
WriteLocked_NoAdvance(q, b, n, sig, acc) ==
    IF Len(b) = 0
      THEN [p |-> q, park |-> FALSE, b |-> b, n |-> n, err |-> NoErr,
            sig |-> sig, acc |-> acc]
    ELSE LET e == waitForWritableLocked(q)
         IN  IF e = Wait
               THEN [p |-> q, park |-> TRUE, b |-> b, n |-> n, err |-> NoErr,
                     sig |-> sig, acc |-> acc]
             ELSE IF e # NoErr
               THEN [p |-> q, park |-> FALSE, b |-> b, n |-> n, err |-> e,
                     sig |-> sig, acc |-> acc]
             ELSE LET wasEmpty == empty(q)
                      c        == writeChunkLocked(q, b)
                  IN  WriteLocked_NoAdvance(c.p, b, n + c.n,
                                  IF wasEmpty THEN sig + 1 ELSE sig,
                                  acc \o SubSeq(b, 1, c.n))

RECURSIVE WriteLocked(_, _, _, _, _)
WriteLocked(q, b, n, sig, acc) ==
    IF Len(b) = 0
      THEN [p |-> q, park |-> FALSE, b |-> b, n |-> n, err |-> NoErr,
            sig |-> sig, acc |-> acc]
    ELSE LET e == waitForWritableLocked(q)
         IN  IF e = Wait
               THEN [p |-> q, park |-> TRUE, b |-> b, n |-> n, err |-> NoErr,
                     sig |-> sig, acc |-> acc]
             ELSE IF e # NoErr
               THEN [p |-> q, park |-> FALSE, b |-> b, n |-> n, err |-> e,
                     sig |-> sig, acc |-> acc]
             ELSE LET wasEmpty == empty(q)
                      c        == writeChunkLocked(q, b)
                  IN  WriteLocked(c.p, SubSeq(b, c.n + 1, Len(b)), n + c.n,
                                  IF wasEmpty THEN sig + 1 ELSE sig,
                                  acc \o SubSeq(b, 1, c.n))

(***************************************************************************)
(* Goroutine-local state.                                                  *)
(***************************************************************************)
NoCall == [b |-> <<>>, n |-> 0, len |-> 0, waited |-> FALSE]
NoRet  == [by |-> "none", op |-> "none", len |-> 0, n |-> 0, err |-> NoErr,
           data |-> <<>>, waited |-> FALSE]
\* Close and CloseWithError return nil; arg is the error they were given.
CloseRet(handle, op, arg) ==
    [by |-> handle, op |-> op, len |-> 0, n |-> 0, err |-> NoErr,
     data |-> <<arg>>, waited |-> FALSE]

Parked(S) == {x \in S : pc[x] = "parked"}

(***************************************************************************)
(* sync.Cond.Signal called k times on the condition the goroutines of S    *)
(* wait on: each call wakes one parked goroutine, if there is any.         *)
(***************************************************************************)
SignalSets(S, k) ==
    {T \in SUBSET Parked(S) : Cardinality(T) = Min(k, Cardinality(Parked(S)))}

\* A close that forgets p.writerWait.Broadcast().
BroadcastAll_ReadersOnly(f) ==
    [x \in Procs |-> IF f[x] = "parked" /\ x \in AllReaders THEN "woken" ELSE f[x]]

\* A close that forgets p.readerWait.Broadcast().
BroadcastAll_WritersOnly(f) ==
    [x \in Procs |-> IF f[x] = "parked" /\ x \in AllWriters THEN "woken" ELSE f[x]]

\* A close that calls Signal where the code calls Broadcast: it wakes one
\* goroutine of each condition.
BroadcastAll_SignalEach(f) ==
    LET One(S) == IF \E x \in S : f[x] = "parked"
                    THEN {CHOOSE x \in S : f[x] = "parked"} ELSE {}
    IN  [x \in Procs |->
           IF x \in One(AllReaders) \cup One(AllWriters) THEN "woken" ELSE f[x]]

(***************************************************************************)
(* p.readerWait.Broadcast(); p.writerWait.Broadcast()                      *)
(***************************************************************************)
BroadcastAll(f) == [x \in Procs |-> IF f[x] = "parked" THEN "woken" ELSE f[x]]

(***************************************************************************)
(* copyBuffered, the loop behind PipeReader.WriteTo and PipeWriter.ReadFrom:*)
(* it pulls from `read` into a staging buffer and pushes what it pulled to *)
(* `write`.  The record of one run holds the loop's local `total`, what    *)
(* the run returned, and the two ends as the loop sees them: the bytes the *)
(* source can still supply, the bytes pulled so far, the bytes the sink    *)
(* took, the error of the last pull (rErr), the last push as the loop saw  *)
(* it (n bytes handed, wn reported, error wErr; n = 0 before the first     *)
(* push), and whether every push so far was taken whole and without error. *)
(***************************************************************************)
NewXfer(src) ==
    [src |-> src, pulled |-> <<>>, sink |-> <<>>, total |-> 0,
     done |-> FALSE, err |-> NoErr, rErr |-> NoErr, wErr |-> NoErr,
     n |-> 0, wn |-> 0, accepted |-> TRUE]

\* The ends of the loop after read(buf) returned (n, rErr) and, when n > 0,
\* write(buf[:n]) returned (wn, wErr), with `total` advanced by `add`.
Transferred(x, n, rErr, wn, wErr, add) ==
    LET buf == SubSeq(x.src, 1, n)
        took == IF n > 0 /\ wn >= 0 /\ wn <= n THEN SubSeq(buf, 1, wn)
                                                ELSE <<>>
    IN  [x EXCEPT !.src = SubSeq(x.src, n + 1, Len(x.src)),
                  !.pulled = x.pulled \o buf,
                  !.sink = x.sink \o took,
                  !.total = x.total + add,
                  !.rErr = rErr,
                  !.wErr = IF n > 0 THEN wErr ELSE x.wErr,
                  !.n = IF n > 0 THEN n ELSE x.n,
                  !.wn = IF n > 0 THEN wn ELSE x.wn,
                  !.accepted = x.accepted /\
                               (n > 0 => (wn = n /\ wErr = NoErr))]

\* One iteration of the loop that adds what it pulled, not what the sink
\* reported, to total.
copyBufferedIter_CountPulled(x, n, rErr, wn, wErr) ==
    LET bad == wn < 0 \/ wn > n
        wn1 == IF bad THEN 0 ELSE wn
        wErr1 == IF bad /\ wErr = NoErr THEN ErrShortWrite ELSE wErr
        y == Transferred(x, n, rErr, wn, wErr, n)
    IN  IF n > 0 /\ wErr1 # NoErr
          THEN [y EXCEPT !.done = TRUE, !.err = wErr1]
        ELSE IF n > 0 /\ wn1 # n
          THEN [y EXCEPT !.done = TRUE, !.err = ErrShortWrite]
        ELSE IF rErr # NoErr
          THEN [y EXCEPT !.done = TRUE,
                         !.err = IF rErr # EOF THEN rErr ELSE NoErr]
        ELSE y

\* One iteration of the loop with the EOF of the source handed on as it is.
copyBufferedIter_PropagateEOF(x, n, rErr, wn, wErr) ==
    LET bad == wn < 0 \/ wn > n
        wn1 == IF bad THEN 0 ELSE wn
        wErr1 == IF bad /\ wErr = NoErr THEN ErrShortWrite ELSE wErr
        y == Transferred(x, n, rErr, wn, wErr, IF n > 0 THEN wn1 ELSE 0)
    IN  IF n > 0 /\ wErr1 # NoErr
          THEN [y EXCEPT !.done = TRUE, !.err = wErr1]
        ELSE IF n > 0 /\ wn1 # n
          THEN [y EXCEPT !.done = TRUE, !.err = ErrShortWrite]
        ELSE IF rErr # NoErr
          THEN [y EXCEPT !.done = TRUE, !.err = rErr]
        ELSE y

\* One iteration of the loop.  A count outside 0..n is replaced by 0 and
\* made a short write; the push's error comes before the short write, the
\* short write before the pull's error, and io.EOF from the pull ends the
\* run with a nil error.
copyBufferedIter(x, n, rErr, wn, wErr) ==
    LET bad == wn < 0 \/ wn > n
        wn1 == IF bad THEN 0 ELSE wn
        wErr1 == IF bad /\ wErr = NoErr THEN ErrShortWrite ELSE wErr
        y == Transferred(x, n, rErr, wn, wErr, IF n > 0 THEN wn1 ELSE 0)
    IN  IF n > 0 /\ wErr1 # NoErr
          THEN [y EXCEPT !.done = TRUE, !.err = wErr1]
        ELSE IF n > 0 /\ wn1 # n
          THEN [y EXCEPT !.done = TRUE, !.err = ErrShortWrite]
        ELSE IF rErr # NoErr
          THEN [y EXCEPT !.done = TRUE,
                         !.err = IF rErr # EOF THEN rErr ELSE NoErr]
        ELSE y

(***************************************************************************)
(* type ringBuffer: a ring of size+1 slots, one of them always free, with  *)
(* a read and a write cursor.                                              *)
(***************************************************************************)
newRingBuffer(size) ==
    [ data |-> [i \in 1..(size + 1) |-> 0], readPos |-> 0, writePos |-> 0 ]

\* Go's copy(s[lo:lo+Len(src)], src) on the storage s.
CopyInto(s, lo, src) ==
    [i \in 1..Len(s) |->
        IF i > lo /\ i <= lo + Len(src) THEN src[i - lo] ELSE s[i]]

(***************************************************************************)
(* func (r *ringBuffer) read(dst []byte) int                               *)
(***************************************************************************)
ringBuffer_read(r, dstLen) ==
    LET bufLen    == Len(r.data)
        available == IF r.writePos >= r.readPos
                       THEN r.writePos - r.readPos
                       ELSE (bufLen - r.readPos) + r.writePos
        toRead    == Min(available, dstLen)
    IN  IF toRead = 0
          THEN [n |-> 0, data |-> <<>>, r |-> r]
        ELSE IF r.readPos + toRead <= bufLen
          THEN [n    |-> toRead,
                data |-> Slice(r.data, r.readPos, r.readPos + toRead),
                r    |-> [r EXCEPT !.readPos = (r.readPos + toRead) % bufLen]]
        ELSE LET firstChunk  == bufLen - r.readPos
                 secondChunk == toRead - firstChunk
             IN  [n    |-> toRead,
                  data |-> Slice(r.data, r.readPos, bufLen) \o
                           Slice(r.data, 0, secondChunk),
                  r    |-> [r EXCEPT !.readPos = secondChunk]]

\* write that takes the used slots for the free ones.
ringBuffer_write_NoSpare(r, src) ==
    LET bufLen    == Len(r.data)
        available == IF r.writePos >= r.readPos
                       THEN bufLen - (r.writePos - r.readPos)
                       ELSE r.readPos - r.writePos
        toWrite   == Min(available, Len(src))
    IN  IF toWrite = 0
          THEN [n |-> 0, r |-> r]
        ELSE IF r.writePos + toWrite < bufLen
          THEN [n |-> toWrite,
                r |-> [r EXCEPT
                         !.data = CopyInto(r.data, r.writePos,
                                           SubSeq(src, 1, toWrite)),
                         !.writePos = (r.writePos + toWrite) % bufLen]]
        ELSE LET firstChunk  == bufLen - r.writePos
                 secondChunk == toWrite - firstChunk
             IN  [n |-> toWrite,
                  r |-> [r EXCEPT
                           !.data = CopyInto(
                                      CopyInto(r.data, r.writePos,
                                               SubSeq(src, 1, firstChunk)),
                                      0, SubSeq(src, firstChunk + 1, toWrite)),
                           !.writePos = secondChunk]]

(***************************************************************************)
(* func (r *ringBuffer) write(src []byte) int                              *)
(***************************************************************************)
ringBuffer_write(r, src) ==
    LET bufLen    == Len(r.data)
        available == IF r.writePos >= r.readPos
                       THEN bufLen - (r.writePos - r.readPos) - 1
                       ELSE r.readPos - r.writePos - 1
        toWrite   == Min(available, Len(src))
    IN  IF toWrite = 0
          THEN [n |-> 0, r |-> r]
        ELSE IF r.writePos + toWrite < bufLen
          THEN [n |-> toWrite,
                r |-> [r EXCEPT
                         !.data = CopyInto(r.data, r.writePos,
                                           SubSeq(src, 1, toWrite)),
                         !.writePos = (r.writePos + toWrite) % bufLen]]
        ELSE LET firstChunk  == bufLen - r.writePos
                 secondChunk == toWrite - firstChunk
             IN  [n |-> toWrite,
                  r |-> [r EXCEPT
                           !.data = CopyInto(
                                      CopyInto(r.data, r.writePos,
                                               SubSeq(src, 1, firstChunk)),
                                      0, SubSeq(src, firstChunk + 1, toWrite)),
                           !.writePos = secondChunk]]

ringBuffer_empty(r) == r.readPos = r.writePos

ringBuffer_full(r) == (r.writePos + 1) % Len(r.data) = r.readPos

\* The last chunk operation done on both buffers: what the pipe's buffer
\* returned (pn, pdata), what the ring returned for the same argument
\* (rnAll, rdataAll) and for the argument cut to the pipe's count (rn, rdata).
NoChunk ==
    [op |-> "none", len |-> 0, pn |-> 0, pdata |-> <<>>, rnAll |-> 0,
     rdataAll |-> <<>>, rn |-> 0, rdata |-> <<>>]

\* The pipe after Pipe(bufferSize), for a bufferSize of the set Sizes.
InitPipe(Sizes) ==
    /\ \E bufferSize \in Sizes : p = Pipe(bufferSize)
    /\ pc = [x \in Procs |-> "idle"]
    /\ cur = [x \in Procs |-> NoCall]
    /\ ret = NoRet
    /\ nextVal = 0
    /\ written = <<>>
    /\ delivered = <<>>
    /\ firstOp = [reader |-> "none", writer |-> "none"]
    /\ firstCWE = [reader |-> "none", writer |-> "none"]

\* The state after Pipe(bufferSize), with no bulk transfer running and no
\* ringBuffer in use.
InitWith(Sizes) ==
    /\ InitPipe(Sizes)
    /\ xfer = NewXfer(<<>>)
    /\ ring = newRingBuffer(1)
    /\ chunk = NoChunk

Init == InitWith(-1..MaxCap)

(***************************************************************************)
(* One critical section of pipe.Write for goroutine w.                     *)
(***************************************************************************)
WriteStep(w, b, n, len, waited) ==
    LET r == WriteLocked(p, b, n, 0, <<>>)
    IN  /\ p' = r.p
        /\ written' = written \o r.acc
        /\ \E T \in SignalSets(AllReaders, r.sig) :
              pc' = [x \in Procs |->
                       IF x = w THEN (IF r.park THEN "parked" ELSE "idle")
                       ELSE IF x \in T THEN "woken" ELSE pc[x]]
        /\ IF r.park
             THEN /\ cur' = [cur EXCEPT ![w] = [b |-> r.b, n |-> r.n,
                                                len |-> len, waited |-> TRUE]]
                  /\ ret' = NoRet
             ELSE /\ cur' = [cur EXCEPT ![w] = NoCall]
                  /\ ret' = [by |-> w, op |-> "Write", len |-> len,
                             n |-> r.n, err |-> r.err, data |-> <<>>,
                             waited |-> waited]
        /\ UNCHANGED <<delivered, firstOp, firstCWE, xfer, ring, chunk>>

(***************************************************************************)
(* func (p *pipe) Write(b []byte): the call, with a payload of k fresh     *)
(* bytes, up to its return or its first Wait.                              *)
(***************************************************************************)
Write(w, k) ==
    /\ pc[w] = "idle"
    /\ nextVal + k <= MaxBytes
    /\ nextVal' = nextVal + k
    /\ WriteStep(w, [i \in 1..k |-> nextVal + i], 0, k, FALSE)

(***************************************************************************)
(* pipe.Write returning from p.writerWait.Wait(): p.mu is held again and   *)
(* the loop of waitForWritableLocked goes round.                           *)
(***************************************************************************)
WriteResume(w) ==
    /\ pc[w] = "woken"
    /\ nextVal' = nextVal
    /\ WriteStep(w, cur[w].b, cur[w].n, cur[w].len, TRUE)

(***************************************************************************)
(* One critical section of pipe.Read for goroutine r.                      *)
(***************************************************************************)
ReadStep(r, dstLen, waited) ==
    LET c == ReadLocked(p, dstLen)
    IN  /\ p' = c.p
        /\ delivered' = delivered \o c.data
        /\ \E T \in SignalSets(AllWriters, c.sig) :
              pc' = [x \in Procs |->
                       IF x = r THEN (IF c.park THEN "parked" ELSE "idle")
                       ELSE IF x \in T THEN "woken" ELSE pc[x]]
        /\ IF c.park
             THEN /\ cur' = [cur EXCEPT ![r] = [b |-> <<>>, n |-> 0,
                                                len |-> dstLen, waited |-> TRUE]]
                  /\ ret' = NoRet
             ELSE /\ cur' = [cur EXCEPT ![r] = NoCall]
                  /\ ret' = [by |-> r, op |-> "Read", len |-> dstLen,
                             n |-> c.n, err |-> c.err, data |-> c.data,
                             waited |-> waited]
        /\ UNCHANGED <<nextVal, written, firstOp, firstCWE, xfer, ring, chunk>>

\* pipe.Read without the len(b) == 0 test.
Read_NoZeroCheck(r, dstLen) ==
    /\ pc[r] = "idle"
    /\ ReadStep(r, dstLen, FALSE)

(***************************************************************************)
(* func (p *pipe) Read(b []byte) with len(b) = dstLen: the call, up to its *)
(* return or its first Wait.  A zero-length b returns before the lock.     *)
(***************************************************************************)
Read(r, dstLen) ==
    /\ pc[r] = "idle"
    /\ IF dstLen = 0
         THEN /\ ret' = [by |-> r, op |-> "Read", len |-> 0, n |-> 0,
                         err |-> NoErr, data |-> <<>>, waited |-> FALSE]
              /\ UNCHANGED <<p, pc, cur, nextVal, written, delivered,
                             firstOp, firstCWE, xfer, ring, chunk>>
         ELSE ReadStep(r, dstLen, FALSE)

(***************************************************************************)
(* pipe.Read returning from p.readerWait.Wait().                           *)
(***************************************************************************)
ReadResume(r) ==
    /\ pc[r] = "woken"
    /\ ReadStep(r, cur[r].len, TRUE)

First(f, side, v) == IF f[side] = "none" THEN [f EXCEPT ![side] = v] ELSE f

(***************************************************************************)
(* func (p *pipe) Close() error, reached from PipeReader.Close.            *)
(***************************************************************************)
Close ==
    /\ p' = closeReaderLocked(p, NoErr, FALSE)
    /\ pc' = BroadcastAll(pc)
    /\ firstOp' = First(firstOp, "reader", "Close")
    /\ ret' = CloseRet("PipeReader", "Close", NoErr)
    /\ UNCHANGED <<cur, nextVal, written, delivered, firstCWE, xfer, ring, chunk>>

(***************************************************************************)
(* func (r *PipeReader) CloseWithError(err error) error                    *)
(***************************************************************************)
ReaderCloseWithError(err) ==
    /\ p' = closeReaderLocked(p, err, TRUE)
    /\ pc' = BroadcastAll(pc)
    /\ firstOp' = First(firstOp, "reader", "CloseWithError")
    /\ firstCWE' = First(firstCWE, "reader", err)
    /\ ret' = CloseRet("PipeReader", "CloseWithError", err)
    /\ UNCHANGED <<cur, nextVal, written, delivered, xfer, ring, chunk>>

(***************************************************************************)
(* func (p *pipe) closeWrite() error, reached from PipeWriter.Close.       *)
(***************************************************************************)
closeWrite ==
    /\ p' = closeWriterLocked(p, NoErr, FALSE)
    /\ pc' = BroadcastAll(pc)
    /\ firstOp' = First(firstOp, "writer", "Close")
    /\ ret' = CloseRet("PipeWriter", "Close", NoErr)
    /\ UNCHANGED <<cur, nextVal, written, delivered, firstCWE, xfer, ring, chunk>>

(***************************************************************************)
(* func (w *PipeWriter) CloseWithError(err error) error                    *)
(***************************************************************************)
WriterCloseWithError(err) ==
    /\ p' = closeWriterLocked(p, err, TRUE)
    /\ pc' = BroadcastAll(pc)
    /\ firstOp' = First(firstOp, "writer", "CloseWithError")
    /\ firstCWE' = First(firstCWE, "writer", err)
    /\ ret' = CloseRet("PipeWriter", "CloseWithError", err)
    /\ UNCHANGED <<cur, nextVal, written, delivered, xfer, ring, chunk>>

Next ==
    \/ \E w \in Writers, k \in 0..MaxSrc : Write(w, k)
    \/ \E w \in Writers : WriteResume(w)
    \/ \E r \in Readers, dstLen \in 0..MaxDst : Read(r, dstLen)
    \/ \E r \in Readers : ReadResume(r)
    \/ Close
    \/ \E err \in ErrArgs : ReaderCloseWithError(err)
    \/ closeWrite
    \/ \E err \in ErrArgs : WriterCloseWithError(err)

Spec == Init /\ [][Next]_vars

(***************************************************************************)
(* The pipe while nobody closes it: one writer and one reader only read    *)
(* and write.  Fairness: the Go scheduler runs every runnable goroutine,   *)
(* so a goroutine woken from Wait resumes; and the reader keeps reading.   *)
(***************************************************************************)
NextOpen ==
    \/ \E w \in Writers, k \in 0..MaxSrc : Write(w, k)
    \/ \E w \in Writers : WriteResume(w)
    \/ \E r \in Readers, dstLen \in 0..MaxDst : Read(r, dstLen)
    \/ \E r \in Readers : ReadResume(r)

LiveSpec ==
    /\ Init
    /\ [][NextOpen]_vars
    /\ \A w \in Writers : WF_vars(WriteResume(w))
    /\ \A r \in Readers : WF_vars(ReadResume(r))
    /\ \A r \in Readers : WF_vars(\E dstLen \in 1..MaxDst : Read(r, dstLen))

(***************************************************************************)
(* The pipe with each side closed at most once, by Close or by             *)
(* CloseWithError, at any moment, also while a Read or a Write is parked.  *)
(* Fairness: a goroutine woken from Wait resumes.                          *)
(***************************************************************************)
NextOnce ==
    \/ \E w \in Writers, k \in 0..MaxSrc : Write(w, k)
    \/ \E w \in Writers : WriteResume(w)
    \/ \E r \in Readers, dstLen \in 0..MaxDst : Read(r, dstLen)
    \/ \E r \in Readers : ReadResume(r)
    \/ firstOp.reader = "none" /\ Close
    \/ firstOp.reader = "none" /\ \E err \in ErrArgs : ReaderCloseWithError(err)
    \/ firstOp.writer = "none" /\ closeWrite
    \/ firstOp.writer = "none" /\ \E err \in ErrArgs : WriterCloseWithError(err)

CloseLiveSpec ==
    /\ Init
    /\ [][NextOnce]_vars
    /\ \A w \in Writers : WF_vars(WriteResume(w))
    /\ \A r \in Readers : WF_vars(ReadResume(r))

(***************************************************************************)
(* The pipe with two concurrent callers on each side and each side closed  *)
(* at most once; the calls are those that can wait, with a non-empty       *)
(* payload or destination.  Fairness: a goroutine woken from Wait resumes; *)
(* nothing obliges a goroutine to make another call.                       *)
(***************************************************************************)
MultiNext ==
    \/ \E w \in AllWriters, k \in 1..MaxSrc : Write(w, k)
    \/ \E w \in AllWriters : WriteResume(w)
    \/ \E r \in AllReaders, dstLen \in 1..MaxDst : Read(r, dstLen)
    \/ \E r \in AllReaders : ReadResume(r)
    \/ firstOp.reader = "none" /\ Close
    \/ firstOp.reader = "none" /\ \E err \in ErrArgs : ReaderCloseWithError(err)
    \/ firstOp.writer = "none" /\ closeWrite
    \/ firstOp.writer = "none" /\ \E err \in ErrArgs : WriterCloseWithError(err)

MultiLiveSpec ==
    /\ Init
    /\ [][MultiNext]_vars
    /\ \A w \in AllWriters : WF_vars(WriteResume(w))
    /\ \A r \in AllReaders : WF_vars(ReadResume(r))

(***************************************************************************)
(* The pipe with two writing goroutines and one reading goroutine, each    *)
(* side closed at most once.                                               *)
(***************************************************************************)
TwoWriterNext ==
    \/ \E w \in AllWriters, k \in 1..MaxSrc : Write(w, k)
    \/ \E w \in AllWriters : WriteResume(w)
    \/ \E dstLen \in 1..MaxDst : Read(R1, dstLen)
    \/ ReadResume(R1)
    \/ firstOp.reader = "none" /\ Close
    \/ firstOp.writer = "none" /\ closeWrite

TwoWriterSpec == Init /\ [][TwoWriterNext]_vars

(***************************************************************************)
(* The pipe made by Pipe(bufferSize) with a bufferSize <= 0.               *)
(***************************************************************************)
CoercedSpec == InitWith(-1..0) /\ [][Next]_vars

(***************************************************************************)
(* A run of copyBuffered on its own: the source holds the bytes 1..T and   *)
(* read and write are any io.Reader and io.Writer, so each pull returns    *)
(* any count the staging buffer and the source allow with any error, and   *)
(* each push returns any count (also one outside 0..n) with any error.     *)
(***************************************************************************)
PullErrs == {NoErr, EOF, "e1"}
PushErrs == {NoErr, EOF, "e2"}

copyBuffered ==
    /\ ~xfer.done
    /\ \E n \in 0..Min(StageLen, Len(xfer.src)), rErr \in PullErrs :
         \E wn \in (IF n > 0 THEN -1..(n + 1) ELSE {0}),
            wErr \in (IF n > 0 THEN PushErrs ELSE {NoErr}) :
           xfer' = copyBufferedIter(xfer, n, rErr, wn, wErr)
    /\ UNCHANGED <<p, pc, cur, ret, nextVal, written, delivered, firstOp,
                   firstCWE, ring, chunk>>

CopyInit ==
    /\ InitPipe({1})
    /\ \E T \in 0..MaxXfer : xfer = NewXfer([i \in 1..T |-> i])
    /\ ring = newRingBuffer(1)
    /\ chunk = NoChunk

CopyNext == copyBuffered

CopySpec == CopyInit /\ [][CopyNext]_vars

(***************************************************************************)
(* The two buffers side by side, without the pipe's lock and waits: a      *)
(* pipe buffer of capacity C and a ringBuffer of size C take the same      *)
(* chunk operations.  The pipe's buffer is called as pipe.Write and        *)
(* pipe.Read call it: writeChunkLocked with a non-empty payload on a       *)
(* buffer that is not full, readChunkLocked with a non-empty destination   *)
(* on a buffer that is not empty.  The ring goes on from the state it has  *)
(* after taking or giving as many bytes as the pipe's buffer did.          *)
(***************************************************************************)
ChunkWrite(k) ==
    /\ ~full(p)
    /\ nextVal + k <= MaxChunkBytes
    /\ LET src  == [i \in 1..k |-> nextVal + i]
           c    == writeChunkLocked(p, src)
           rAll == ringBuffer_write(ring, src)
           rCut == ringBuffer_write(ring, SubSeq(src, 1, c.n))
       IN  /\ p' = c.p
           /\ ring' = rCut.r
           /\ chunk' = [op |-> "write", len |-> k, pn |-> c.n,
                        pdata |-> SubSeq(src, 1, c.n), rnAll |-> rAll.n,
                        rdataAll |-> SubSeq(src, 1, rAll.n), rn |-> rCut.n,
                        rdata |-> SubSeq(src, 1, rCut.n)]
           /\ nextVal' = nextVal + k
           /\ written' = written \o SubSeq(src, 1, c.n)
    /\ UNCHANGED <<pc, cur, ret, delivered, firstOp, firstCWE, xfer>>

ChunkRead(dstLen) ==
    /\ ~empty(p)
    /\ LET c    == readChunkLocked(p, dstLen)
           rAll == ringBuffer_read(ring, dstLen)
           rCut == ringBuffer_read(ring, c.n)
       IN  /\ p' = c.p
           /\ ring' = rCut.r
           /\ chunk' = [op |-> "read", len |-> dstLen, pn |-> c.n,
                        pdata |-> c.data, rnAll |-> rAll.n,
                        rdataAll |-> rAll.data, rn |-> rCut.n,
                        rdata |-> rCut.data]
           /\ delivered' = delivered \o c.data
    /\ UNCHANGED <<pc, cur, ret, nextVal, written, firstOp, firstCWE, xfer>>

ChunkInit ==
    /\ InitPipe(1..MaxCap)
    /\ xfer = NewXfer(<<>>)
    /\ ring = newRingBuffer(Cap(p))
    /\ chunk = NoChunk

ChunkNext ==
    \/ \E k \in 1..MaxSrc : ChunkWrite(k)
    \/ \E dstLen \in 1..MaxDst : ChunkRead(dstLen)

ChunkSpec == ChunkInit /\ [][ChunkNext]_vars

TypeOK ==
    /\ p.readPos \in 0..Cap(p)
    /\ p.writePos \in 0..Cap(p)
    /\ p.len \in 0..Cap(p)
    /\ pc \in [Procs -> {"idle", "parked", "woken"}]
    /\ ret.by \in Procs \cup {"none", "PipeReader", "PipeWriter"}
    /\ nextVal \in 0..MaxBytes

(***************************************************************************)
(* Vocabulary of the properties.                                           *)
(***************************************************************************)
IsPrefix(a, b) == Len(a) <= Len(b) /\ a = SubSeq(b, 1, Len(a))

Unread == Len(written) - Len(delivered)

Open == ~p.readerClosed /\ ~p.writerClosed

\* A Read with a non-empty destination returned in the last step.
ReadReturned == ret.op = "Read" /\ ret.len > 0

\* A Write with a non-empty payload returned in the last step.
WriteReturned == ret.op = "Write" /\ ret.len > 0

\* Number of unread bytes the Read that just returned found in the buffer.
Found == Unread + ret.n

\* The Read that just returned took at least one byte, the oldest unread ones.
TookOldest ==
    /\ ret.err = NoErr
    /\ ret.n >= 1 /\ ret.n <= Min(Found, ret.len)
    /\ ret.data = SubSeq(written, Len(delivered) - ret.n + 1, Len(delivered))

\* The error a side is due, given the first CloseWithError of the other side.
Due(side, default) ==
    IF firstCWE[side] \in CustomErrs THEN firstCWE[side] ELSE default

(***************************************************************************)
(* C1. Streaming fidelity: the bytes returned by Read are at every moment  *)
(* a prefix of the bytes accepted by Write, and are all of them whenever   *)
(* the buffer is empty; no byte is lost, duplicated or reordered.          *)
(***************************************************************************)
C1_StreamingFidelity ==
    /\ IsPrefix(delivered, written)
    /\ empty(p) <=> delivered = written

C1_Witness ==
    /\ Cap(p) = 2
    /\ Len(delivered) >= 3
    /\ delivered = written
    /\ ret.by = R1 /\ ret.n >= 1 /\ p.readPos = 1

(***************************************************************************)
(* C2. Writer progress (one writer, one reader).  A Write is parked only   *)
(* while the buffer is full and both sides are open, so it is woken each   *)
(* time the reader frees space; it returns without error only with its     *)
(* whole payload accepted; and while the pipe stays open and the reader    *)
(* keeps reading, a Write in progress eventually returns (len(src), nil)   *)
(* and the last byte of its payload reaches the reader.                    *)
(***************************************************************************)
WriterParkedOnlyWhenFull ==
    \A w \in Writers : pc[w] = "parked" => full(p) /\ Open

WriteAllOrError ==
    ret.op = "Write" /\ ret.err = NoErr => ret.n = ret.len

C2_WriterProgress ==
    /\ [](WriterParkedOnlyWhenFull /\ WriteAllOrError)
    /\ \A v \in 1..MaxBytes :
          (pc[W1] # "idle" /\ nextVal = v /\ Open)
             ~> \/ ~Open
                \/ /\ ret.by = W1 /\ ret.len > 0
                   /\ ret.n = ret.len /\ ret.err = NoErr /\ ret.waited
    /\ \A v \in 1..MaxBytes :
          (pc[W1] # "idle" /\ nextVal = v /\ Open)
             ~> \/ ~Open
                \/ Len(delivered) >= v /\ delivered[v] = v

C2_Witness ==
    /\ Cap(p) = 2
    /\ ret.by = W1 /\ ret.len = 3 /\ ret.n = 3 /\ ret.err = NoErr /\ ret.waited
    /\ Open

(***************************************************************************)
(* C3. Reader progress (one writer, one reader).  A Read is parked only    *)
(* while the buffer is empty and both sides are open, and a Read in        *)
(* progress while the buffer holds unread bytes eventually returns at      *)
(* least one byte.                                                         *)
(***************************************************************************)
ReaderParkedOnlyWhenEmpty ==
    \A r \in Readers : pc[r] = "parked" => empty(p) /\ Unread = 0 /\ Open

C3_ReaderProgress ==
    /\ []ReaderParkedOnlyWhenEmpty
    /\ (pc[R1] # "idle" /\ Unread > 0)
          ~> (ret.by = R1 /\ ret.n >= 1 /\ ret.err = NoErr /\ ret.waited)

C3_Witness ==
    /\ ret.by = R1 /\ ret.op = "Read" /\ ret.waited
    /\ ret.n >= 1 /\ ret.err = NoErr
    /\ Open

(***************************************************************************)
(* C4. After the writer side is closed without error (reader side open,    *)
(* no error handed to the writer's CloseWithError), a Read that finds      *)
(* bytes in the buffer returns the oldest of them with no error, a Read    *)
(* that finds the buffer empty returns (0, io.EOF), and io.EOF is only     *)
(* ever returned by a Read that found the buffer empty.                    *)
(***************************************************************************)
WriterClosedNoError ==
    /\ p.writerClosed /\ ~p.readerClosed
    /\ firstCWE.writer \in {"none", NoErr}

C4_DrainThenEOF ==
    /\ (ReadReturned /\ WriterClosedNoError) =>
          IF Found > 0 THEN TookOldest
                       ELSE ret.n = 0 /\ ret.err = EOF
    /\ (ReadReturned /\ ret.err = EOF) => Found = 0 /\ ret.n = 0

C4_Witness ==
    /\ ReadReturned /\ WriterClosedNoError
    /\ ret.n >= 1 /\ ret.err = NoErr /\ Unread > 0

(***************************************************************************)
(* C5. After the reader side is closed, a Read that finds bytes in the     *)
(* buffer still returns the oldest of them with no error; only a Read that *)
(* finds the buffer empty fails, with the error handed to the reader's     *)
(* CloseWithError and with the closed-pipe error when there is none.       *)
(***************************************************************************)
C5_ReaderCloseKeepsBuffered ==
    (ReadReturned /\ p.readerClosed) =>
        IF Found > 0 THEN TookOldest
                     ELSE ret.n = 0 /\ ret.err = Due("reader", ErrClosedPipe)

C5_Witness ==
    /\ ReadReturned /\ p.readerClosed /\ ~p.writerClosed
    /\ firstCWE.reader = "e1"
    /\ ret.n >= 1 /\ ret.err = NoErr

(***************************************************************************)
(* C6. Once the reader side is closed, a Write call with a non-empty       *)
(* payload returns in the same critical section (it does not park), with   *)
(* n = 0, nothing accepted into the buffer, and the error handed to the    *)
(* reader's CloseWithError, or the closed-pipe error when there is none.   *)
(***************************************************************************)
C6_WriteAfterReaderClose ==
    [][\A w \in Writers, k \in 1..MaxSrc :
          (p.readerClosed /\ Write(w, k)) =>
              /\ pc'[w] = "idle"
              /\ ret'.by = w /\ ret'.n = 0 /\ ~ret'.waited
              /\ ret'.err = Due("reader", ErrClosedPipe)
              /\ written' = written /\ p' = p]_vars

C6_Witness ==
    /\ WriteReturned /\ p.readerClosed /\ ~p.writerClosed
    /\ ~full(p) /\ ~ret.waited
    /\ ret.n = 0 /\ ret.err = "e1"

(***************************************************************************)
(* C7. Once the writer side is closed, with the reader side open, a Write  *)
(* call with a non-empty payload returns in the same critical section with *)
(* n = 0, nothing accepted, and the closed-pipe error.                     *)
(***************************************************************************)
C7_WriteAfterWriterClose ==
    [][\A w \in Writers, k \in 1..MaxSrc :
          (p.writerClosed /\ ~p.readerClosed /\ Write(w, k)) =>
              /\ pc'[w] = "idle"
              /\ ret'.by = w /\ ret'.n = 0 /\ ~ret'.waited
              /\ ret'.err = ErrClosedPipe
              /\ written' = written /\ p' = p]_vars

C7_Witness ==
    /\ WriteReturned /\ p.writerClosed /\ ~p.readerClosed
    /\ ~full(p) /\ ~ret.waited
    /\ firstCWE.writer = "e1"
    /\ ret.n = 0 /\ ret.err = ErrClosedPipe

(***************************************************************************)
(* C8. With the reader side open, once the writer's CloseWithError(e) has  *)
(* been called, a Read that finds the buffer empty returns exactly e       *)
(* (io.EOF for a nil e), and a Read that finds unread bytes returns them   *)
(* with no error.                                                          *)
(***************************************************************************)
C8_WriterErrorVerbatim ==
    (ReadReturned /\ ~p.readerClosed /\ firstCWE.writer # "none") =>
        IF Found > 0 THEN TookOldest
                     ELSE ret.n = 0 /\ ret.err = Due("writer", EOF)

C8_Witness ==
    /\ ReadReturned /\ ~p.readerClosed
    /\ firstCWE.writer = "e2" /\ Len(delivered) >= 1
    /\ ret.n = 0 /\ ret.err = "e2"

(***************************************************************************)
(* C9. First error wins: a sticky error that is set never changes in any   *)
(* step, it is the error of the first CloseWithError of the side that set  *)
(* it, and that is the error the opposite side gets.                       *)
(***************************************************************************)
StickyStable ==
    /\ p.readerClosedErr # NoErr => p'.readerClosedErr = p.readerClosedErr
    /\ p.writerClosedErr # NoErr => p'.writerClosedErr = p.writerClosedErr

StickyIsFirst ==
    /\ p.readerClosedErr =
          IF firstCWE.writer = "none" THEN NoErr ELSE Due("writer", EOF)
    /\ p.writerClosedErr =
          IF firstCWE.reader = "none" THEN NoErr ELSE Due("reader", ErrClosedPipe)

ObservedIsFirst ==
    /\ (ReadReturned /\ ret.err # NoErr /\ ~p.readerClosed
          /\ firstCWE.writer \in CustomErrs) => ret.err = firstCWE.writer
    /\ (WriteReturned /\ ret.err # NoErr /\ p.readerClosed
          /\ firstCWE.reader \in CustomErrs) => ret.err = firstCWE.reader

C9_FirstErrorWins ==
    /\ [][StickyStable]_vars
    /\ [](StickyIsFirst /\ ObservedIsFirst)

C9_Witness ==
    /\ ret.by = "PipeWriter" /\ ret.op = "CloseWithError" /\ ret.data = <<"e2">>
    /\ firstCWE.writer = "e1"
    /\ p.readerClosedErr = "e1"

(***************************************************************************)
(* C10 as stated: a plain Close installs the default sticky error, so that *)
(* after a side was first closed with Close the opposite side only ever    *)
(* gets the default error (io.EOF for Read, the closed-pipe error for      *)
(* Write), whatever CloseWithError(e) follows.                             *)
(***************************************************************************)
C10_CloseInstallsDefault ==
    /\ (ReadReturned /\ ret.err # NoErr /\ ~p.readerClosed
          /\ firstOp.writer = "Close") => ret.err = EOF
    /\ (WriteReturned /\ ret.err # NoErr /\ p.readerClosed
          /\ firstOp.reader = "Close") => ret.err = ErrClosedPipe

(***************************************************************************)
(* C10 amended: a plain Close only sets the closed flag of its side and    *)
(* leaves both sticky errors as they are.  After a side was first closed   *)
(* with Close, the opposite side gets the default error until a            *)
(* CloseWithError(e) with a non-nil e is called on that side, and from     *)
(* then on the e of the first CloseWithError.                              *)
(***************************************************************************)
PlainCloseSetsNoError ==
    /\ Close => /\ p'.readerClosed
                /\ p'.writerClosedErr = p.writerClosedErr
                /\ p'.readerClosedErr = p.readerClosedErr
    /\ closeWrite => /\ p'.writerClosed
                     /\ p'.readerClosedErr = p.readerClosedErr
                     /\ p'.writerClosedErr = p.writerClosedErr

AfterPlainClose ==
    /\ (ReadReturned /\ ret.err # NoErr /\ ~p.readerClosed
          /\ firstOp.writer = "Close") => ret.err = Due("writer", EOF)
    /\ (WriteReturned /\ ret.err # NoErr /\ p.readerClosed
          /\ firstOp.reader = "Close") => ret.err = Due("reader", ErrClosedPipe)

C10_PlainCloseKeepsErrorOpen ==
    /\ [][PlainCloseSetsNoError]_vars
    /\ []AfterPlainClose

C10_Witness ==
    /\ ReadReturned /\ ~p.readerClosed
    /\ firstOp.writer = "Close" /\ firstCWE.writer = "e1"
    /\ ret.n = 0 /\ ret.err = "e1"

(***************************************************************************)
(* C11. A Write that is parked on a full buffer when the reader side       *)
(* closes is woken by the close: no Write stays parked once a side is      *)
(* closed, and a Write in progress when the reader side is closed          *)
(* eventually returns the error handed to the reader's CloseWithError, or  *)
(* the closed-pipe error when there is none.                               *)
(***************************************************************************)
NoWriterParkedAfterClose ==
    \A w \in Writers : pc[w] = "parked" => Open

C11_BlockedWriteFailsOnReaderClose ==
    /\ []NoWriterParkedAfterClose
    /\ (pc[W1] # "idle" /\ p.readerClosed)
          ~> /\ ret.by = W1 /\ ret.waited
             /\ ret.n < ret.len
             /\ ret.err = Due("reader", ErrClosedPipe)

C11_Witness ==
    /\ ret.by = W1 /\ ret.op = "Write" /\ ret.waited
    /\ p.readerClosed /\ ~p.writerClosed /\ full(p)
    /\ ret.n < ret.len /\ ret.err = "e1"

(***************************************************************************)
(* C12. A Read that is parked on an empty buffer when the writer side      *)
(* closes is woken by the close and, unless the reader side is closed as   *)
(* well, returns 0 bytes with io.EOF, or with the error handed to the      *)
(* writer's CloseWithError.                                                *)
(***************************************************************************)
NoReaderParkedAfterClose ==
    \A r \in Readers : pc[r] = "parked" => Open

C12_BlockedReadEndsOnWriterClose ==
    /\ []NoReaderParkedAfterClose
    /\ (pc[R1] # "idle" /\ p.writerClosed /\ Unread = 0)
          ~> \/ p.readerClosed
             \/ /\ ret.by = R1 /\ ret.waited
                /\ ret.n = 0
                /\ ret.err = Due("writer", EOF)

C12_Witness ==
    /\ ret.by = R1 /\ ret.op = "Read" /\ ret.waited
    /\ p.writerClosed /\ ~p.readerClosed
    /\ ret.n = 0 /\ ret.err = EOF

(***************************************************************************)
(* C13. A Read that is parked on an empty buffer when the reader side is   *)
(* closed with a plain Close is woken and returns io.ErrClosedPipe.        *)
(***************************************************************************)
C13_BlockedReadFailsOnReaderClose ==
    (pc[R1] # "idle" /\ firstOp.reader = "Close" /\ Unread = 0)
       ~> /\ ret.by = R1 /\ ret.waited
          /\ ret.n = 0
          /\ ret.err = ErrClosedPipe

C13_Witness ==
    /\ ret.by = R1 /\ ret.op = "Read" /\ ret.waited
    /\ firstOp.reader = "Close" /\ ~p.writerClosed
    /\ ret.n = 0 /\ ret.err = ErrClosedPipe

(***************************************************************************)
(* C14. A Read with a zero-length destination returns (0, nil) in the same *)
(* step, whatever the state of the pipe, and changes neither the pipe      *)
(* (buffer, cursors, closed flags, sticky errors) nor the position of any  *)
(* goroutine: it does not park and it wakes nobody.                        *)
(***************************************************************************)
C14_ZeroLengthRead ==
    [][\A r \in Readers :
          Read(r, 0) =>
              /\ ret'.by = r /\ ret'.n = 0 /\ ret'.err = NoErr /\ ~ret'.waited
              /\ p' = p /\ pc' = pc
              /\ delivered' = delivered /\ written' = written]_vars

C14_Witness ==
    /\ ret.by = R1 /\ ret.op = "Read" /\ ret.len = 0
    /\ ret.n = 0 /\ ret.err = NoErr
    /\ full(p) /\ pc[W1] = "parked"

(***************************************************************************)
(* C15 as stated: once a side is closed, every Read with a non-empty       *)
(* destination that finds the buffer empty, and every Write whatever the   *)
(* length of its payload (zero included), returns a non-nil error in the   *)
(* same step.                                                              *)
(***************************************************************************)
ReadFailsAtOnce ==
    \A r \in Readers, d \in 1..MaxDst :
        (~Open /\ Unread = 0 /\ Read(r, d)) =>
            /\ pc'[r] = "idle"
            /\ ret'.by = r /\ ret'.n = 0 /\ ret'.err # NoErr /\ ~ret'.waited

WriteFailsAtOnce(Lens) ==
    \A w \in Writers, k \in Lens :
        (~Open /\ Write(w, k)) =>
            /\ pc'[w] = "idle"
            /\ ret'.by = w /\ ret'.n = 0 /\ ret'.err # NoErr /\ ~ret'.waited

C15_EveryCallFailsAfterClose ==
    [][ReadFailsAtOnce /\ WriteFailsAtOnce(0..MaxSrc)]_vars

(***************************************************************************)
(* C15 amended: once a side is closed, every Read with a non-empty         *)
(* destination that finds the buffer empty and every Write with a          *)
(* non-empty payload returns a non-nil error in the same step; a Write     *)
(* with an empty payload returns (0, nil) in every state.                  *)
(***************************************************************************)
EmptyWriteSucceeds ==
    \A w \in Writers :
        Write(w, 0) =>
            /\ pc'[w] = "idle"
            /\ ret'.by = w /\ ret'.n = 0 /\ ret'.err = NoErr
            /\ p' = p

C15_NonEmptyCallFailsAfterClose ==
    [][ReadFailsAtOnce /\ WriteFailsAtOnce(1..MaxSrc) /\ EmptyWriteSucceeds]_vars

C15_Witness ==
    /\ ret.by = R1 /\ ret.op = "Read" /\ ret.len > 0 /\ ~ret.waited
    /\ p.writerClosed /\ ~p.readerClosed
    /\ Len(delivered) > 0
    /\ ret.n = 0 /\ ret.err = EOF

(***************************************************************************)
(* C16. On a pipe with both sides open, a Write of k bytes with k at most  *)
(* the free space returns (k, nil) in the same step, without waiting,      *)
(* with its whole payload accepted, wherever the cursors are.              *)
(***************************************************************************)
C16_WriteIntoFreeSpace ==
    [][\A w \in Writers, k \in 1..MaxSrc :
          (Open /\ k <= Cap(p) - Unread /\ Write(w, k)) =>
              /\ pc'[w] = "idle"
              /\ ret'.by = w /\ ret'.n = k /\ ret'.err = NoErr /\ ~ret'.waited
              /\ written' = written \o [i \in 1..k |-> nextVal + i]]_vars

C16_Witness ==
    /\ ret.by = W1 /\ ret.op = "Write" /\ ~ret.waited
    /\ ret.n = 2 /\ ret.err = NoErr
    /\ Open /\ Cap(p) = 2 /\ p.writePos = 1 /\ full(p)

(***************************************************************************)
(* C17. A pipe made by Pipe(n) with n <= 0 has capacity exactly 1: the     *)
(* buffer never holds more than one unread byte, a non-empty Write issued  *)
(* on the open pipe while one byte is buffered parks without accepting     *)
(* anything, and a parked Write leaves Wait only when the byte has been    *)
(* read or a side has been closed.                                         *)
(***************************************************************************)
CapacityOne ==
    /\ Cap(p) = 1
    /\ p.len <= 1
    /\ Unread <= 1

WriteParksOnOneByte ==
    \A w \in Writers, k \in 1..MaxSrc :
        (Open /\ Unread = 1 /\ Write(w, k)) =>
            /\ pc'[w] = "parked"
            /\ written' = written

ParkedUntilRead ==
    \A w \in Writers :
        (pc[w] = "parked" /\ pc'[w] # "parked") => (Unread' < Unread \/ ~Open')

C17_NonPositiveSizeIsOne ==
    /\ []CapacityOne
    /\ [][WriteParksOnOneByte /\ ParkedUntilRead]_vars

C17_Witness ==
    /\ Cap(p) = 1
    /\ ret.by = W1 /\ ret.op = "Write" /\ ret.waited
    /\ ret.n = 2 /\ ret.err = NoErr
    /\ Len(delivered) >= 1 /\ Unread = 1

(***************************************************************************)
(* C18. Close and CloseWithError on either handle return nil in every      *)
(* state, and a plain Close of a side that is already closed changes       *)
(* nothing in the pipe: flags, sticky errors, buffer and cursors.          *)
(***************************************************************************)
AnyClose ==
    \/ Close
    \/ closeWrite
    \/ \E err \in ErrArgs : ReaderCloseWithError(err)
    \/ \E err \in ErrArgs : WriterCloseWithError(err)

C18_CloseReturnsNilIdempotent ==
    [][/\ AnyClose => ret'.err = NoErr /\ ret'.by \in {"PipeReader", "PipeWriter"}
       /\ (p.readerClosed /\ Close) => p' = p
       /\ (p.writerClosed /\ closeWrite) => p' = p]_vars

C18_Witness ==
    /\ ret.by = "PipeReader" /\ ret.op = "Close" /\ ret.err = NoErr
    /\ firstOp.reader = "CloseWithError" /\ p.writerClosedErr = "e1"
    /\ Unread > 0

(***************************************************************************)
(* C19. The closed flags are monotonic: readerClosed and writerClosed only *)
(* ever go from false to true, readerClosed only in a close of the read    *)
(* handle and writerClosed only in a close of the write handle; Read and   *)
(* Write never change them, and once both are set they stay set.           *)
(***************************************************************************)
C19_CloseMonotonic ==
    [][/\ p.readerClosed => p'.readerClosed
       /\ p.writerClosed => p'.writerClosed
       /\ p'.readerClosed # p.readerClosed => ret'.by = "PipeReader"
       /\ p'.writerClosed # p.writerClosed => ret'.by = "PipeWriter"]_vars

C19_Witness ==
    /\ p.readerClosed /\ p.writerClosed
    /\ ret.by = W1 /\ ret.op = "Write" /\ ret.len > 0
    /\ firstOp.reader = "Close" /\ firstOp.writer = "CloseWithError"

(***************************************************************************)
(* C20. Bulk transfer (WriteTo and ReadFrom, both copyBuffered): when the  *)
(* source has delivered some T bytes and then signalled end-of-stream, and *)
(* the sink took every push whole and without error, the transfer has      *)
(* returned (T, nil) and the sink holds exactly the T bytes, in order.     *)
(* The end-of-stream of the source is never the error of the transfer: a   *)
(* transfer that returned io.EOF got it from a push.                       *)
(***************************************************************************)
SourceEnded == xfer.rErr = EOF

C20_BulkTransferToEOF ==
    /\ (SourceEnded /\ xfer.accepted) =>
          /\ xfer.done
          /\ xfer.err = NoErr
          /\ xfer.total = Len(xfer.pulled)
          /\ xfer.sink = xfer.pulled
          /\ xfer.pulled = [i \in 1..xfer.total |-> i]
    /\ (xfer.done /\ xfer.err = EOF) => xfer.wErr = EOF

C20_Witness ==
    /\ xfer.done /\ SourceEnded /\ xfer.accepted
    /\ xfer.err = NoErr /\ xfer.total = MaxXfer
    /\ xfer.sink = [i \in 1..MaxXfer |-> i]

(***************************************************************************)
(* C21. Bulk transfer, short write: when the last push was handed n bytes, *)
(* reported a count below n (and not below 0) and no error of its own, the *)
(* transfer has stopped with io.ErrShortWrite, and the total it returned   *)
(* is the number of bytes the sink took, those of the short push included: *)
(* the sink holds exactly the first `total` bytes pulled.                  *)
(***************************************************************************)
ShortPush ==
    xfer.n > 0 /\ xfer.wn >= 0 /\ xfer.wn < xfer.n /\ xfer.wErr = NoErr

C21_ShortWriteStops ==
    ShortPush =>
        /\ xfer.done
        /\ xfer.err = ErrShortWrite
        /\ xfer.total = Len(xfer.sink)
        /\ xfer.sink = SubSeq(xfer.pulled, 1, xfer.total)
        /\ Len(xfer.pulled) - xfer.total = xfer.n - xfer.wn

C21_Witness ==
    /\ ShortPush /\ xfer.done /\ xfer.err = ErrShortWrite
    /\ xfer.n = 2 /\ xfer.wn = 1
    /\ xfer.total = 2 /\ xfer.sink = <<1, 2>> /\ Len(xfer.pulled) = 3

(***************************************************************************)
(* C22. Liveness with several callers per side, on a pipe that is never    *)
(* closed: no Write stays parked for ever while the buffer has free space, *)
(* and no Read stays parked for ever while the buffer holds unread bytes.  *)
(***************************************************************************)
StuckWriter(w) == pc[w] = "parked" /\ ~full(p) /\ Open

StuckReader(r) == pc[r] = "parked" /\ ~empty(p) /\ Open

C22_NoCallerStuck ==
    /\ \A w \in AllWriters : []<>~StuckWriter(w)
    /\ \A r \in AllReaders : []<>~StuckReader(r)

(***************************************************************************)
(* C23. A single Read returns whatever is available: with u >= 1 unread    *)
(* bytes, Read(dst) with len(dst) >= 1 returns exactly min(u, len(dst))    *)
(* bytes, also when the unread bytes span the wrap boundary.               *)
(* This is the claim as made; it fails when the unread bytes span the      *)
(* boundary.                                                               *)
(***************************************************************************)
C23_ReadReturnsAllAvailable ==
    (ReadReturned /\ ret.err = NoErr) => ret.n = Min(Found, ret.len)

(***************************************************************************)
(* C23, amended.  A Read that finds the buffer non-empty returns exactly   *)
(* min(s, len(dst)) bytes, where s >= 1 is the number of unread bytes      *)
(* stored from readPos to the logical length.  s is all the unread bytes   *)
(* unless they span the wrap boundary (0 < writePos <= readPos); then one  *)
(* Read stops at the boundary and leaves the writePos bytes stored at the  *)
(* start of the buffer to the next Read.                                   *)
(***************************************************************************)
Segment(q) == q.len - q.readPos

SpansWrap(q) == 0 < q.writePos /\ q.writePos <= q.readPos

C23_ReadReturnsSegment ==
    [][(ret'.op = "Read" /\ ret'.len > 0 /\ ret'.err = NoErr) =>
          /\ ret'.n = Min(Segment(p), ret'.len)
          /\ Segment(p) >= 1
          /\ IF SpansWrap(p)
               THEN Segment(p) = Unread - p.writePos
               ELSE Segment(p) = Unread]_vars

C23_Witness ==
    /\ ReadReturned /\ ret.err = NoErr
    /\ ret.n < Min(Found, ret.len)
    /\ Unread > 0 /\ p.readPos = 0

(***************************************************************************)
(* C24. Error precedence with both sides closed.  A Read that finds the    *)
(* buffer empty returns 0 bytes and the reader-close error: the error      *)
(* handed to the reader's CloseWithError, else io.ErrClosedPipe; it does   *)
(* not return the writer's io.EOF or custom error, whichever side closed   *)
(* first.  A Write with a non-empty payload fails with that same error,    *)
(* not with the io.ErrClosedPipe of the closed writer side.                *)
(***************************************************************************)
BothClosed == p.readerClosed /\ p.writerClosed

C24_ReaderCloseErrorFirst ==
    /\ (ReadReturned /\ BothClosed /\ Found = 0) =>
          ret.n = 0 /\ ret.err = Due("reader", ErrClosedPipe)
    /\ (WriteReturned /\ BothClosed) =>
          ret.n < ret.len /\ ret.err = Due("reader", ErrClosedPipe)

C24_Witness ==
    /\ ReadReturned /\ BothClosed /\ Found = 0
    /\ firstCWE.reader = "e1" /\ firstCWE.writer = "e2"
    /\ p.readerClosedErr = "e2" /\ ret.err = "e1"

(***************************************************************************)
(* C25. Write's count is exact.  A Write returns a nil error only with     *)
(* n = len(src); whatever it returns, the bytes of src accepted into the   *)
(* buffer are exactly its first n bytes, in order.  Readers get the        *)
(* accepted bytes in order, and a byte of src beyond n, once the Write     *)
(* has returned, is never accepted later (so never delivered).             *)
(***************************************************************************)
Range(s) == {s[i] : i \in 1..Len(s)}

\* The payload of the Write that just returned: the last ret.len bytes
\* handed out (there is one writing goroutine).
ReturnedSrc == [i \in 1..ret.len |-> nextVal - ret.len + i]

AcceptedOf(src) == SelectSeq(written, LAMBDA v : v \in Range(src))

\* Bytes still in the hands of a Write that has not returned.
Pending == UNION {Range(cur[w].b) : w \in AllWriters}

\* Bytes handed to a Write that returned without accepting them.
Rejected == (1..nextVal) \ (Range(written) \cup Pending)

WriteCountExact ==
    WriteReturned =>
        /\ ret.err = NoErr => ret.n = ret.len
        /\ ret.n <= ret.len
        /\ AcceptedOf(ReturnedSrc) = SubSeq(ReturnedSrc, 1, ret.n)
        /\ Range(SubSeq(ReturnedSrc, ret.n + 1, ret.len)) \subseteq Rejected

C25_WriteCountExact ==
    /\ [](WriteCountExact /\ IsPrefix(delivered, written))
    /\ [][Rejected \subseteq Rejected']_vars

C25_Witness ==
    /\ WriteReturned /\ ret.err # NoErr /\ ret.waited
    /\ ret.n >= 1 /\ ret.len - ret.n >= 2
    /\ delivered = written /\ Len(written) = ret.n

(***************************************************************************)
(* C26. Close operations do not touch buffered data: a close of the read   *)
(* handle or of the write handle, with or without error, leaves the stored *)
(* bytes, readPos, writePos and the logical length as they are; it sets    *)
(* the closed flag of its side and changes at most the one sticky error    *)
(* the other side's calls return.                                          *)
(***************************************************************************)
SameData(q1, q2) ==
    /\ q2.buffer = q1.buffer /\ q2.len = q1.len
    /\ q2.readPos = q1.readPos /\ q2.writePos = q1.writePos

C26_CloseKeepsData ==
    [][/\ (Close \/ \E err \in ErrArgs : ReaderCloseWithError(err)) =>
             /\ SameData(p, p')
             /\ p'.readerClosed
             /\ p'.writerClosed = p.writerClosed
             /\ p'.readerClosedErr = p.readerClosedErr
       /\ (closeWrite \/ \E err \in ErrArgs : WriterCloseWithError(err)) =>
             /\ SameData(p, p')
             /\ p'.writerClosed
             /\ p'.readerClosed = p.readerClosed
             /\ p'.writerClosedErr = p.writerClosedErr]_vars

C26_Witness ==
    /\ ret.by = "PipeReader" /\ ret.op = "CloseWithError"
    /\ p.readerClosed /\ ~p.writerClosed /\ p.writerClosedErr = "e2"
    /\ Unread = 2 /\ SpansWrap(p)

(***************************************************************************)
(* C27. Close wakes all waiters, with two callers on each side: once a     *)
(* side is closed no Read and no Write is left in Wait (the close woke     *)
(* every one of them), and every call that resumes from Wait then returns  *)
(* instead of waiting again: a Write with fewer bytes than it was handed   *)
(* and the error its side is due, a Read with buffered data or, the buffer *)
(* being empty, with 0 bytes and the error its side is due.  With a        *)
(* scheduler that runs every woken goroutine, no call blocked at the       *)
(* moment of a close stays blocked.                                        *)
(***************************************************************************)
NobodyParkedAfterClose == \A x \in Procs : pc[x] = "parked" => Open

WriteDue ==
    IF p.readerClosed THEN Due("reader", ErrClosedPipe) ELSE ErrClosedPipe

ReadDue ==
    IF p.readerClosed THEN Due("reader", ErrClosedPipe) ELSE Due("writer", EOF)

WriteEnded(w) ==
    /\ pc[w] = "idle"
    /\ ret.by = w /\ ret.op = "Write" /\ ret.waited
    /\ ret.n < ret.len /\ ret.err = WriteDue

ReadEnded(r) ==
    /\ pc[r] = "idle"
    /\ ret.by = r /\ ret.op = "Read" /\ ret.waited
    /\ IF Found > 0 THEN TookOldest
                    ELSE ret.n = 0 /\ ret.err = ReadDue

C27_CloseWakesAll ==
    /\ []NobodyParkedAfterClose
    /\ [][/\ \A w \in AllWriters : (~Open /\ WriteResume(w)) => WriteEnded(w)'
          /\ \A r \in AllReaders : (~Open /\ ReadResume(r)) => ReadEnded(r)']_vars

\* Both Reads were in Wait when the writer side closed: one of them has
\* just returned io.EOF, the other is woken and still to run.
C27_Witness ==
    /\ ReadEnded(R2) /\ ret.n = 0 /\ ret.err = EOF
    /\ pc[R1] = "woken"
    /\ p.writerClosed /\ ~p.readerClosed /\ written = <<>>

(***************************************************************************)
(* The unread bytes and where the buffer keeps them.  The unread bytes     *)
(* wrap when the write cursor is behind the read cursor, or level with it  *)
(* on a full buffer.                                                       *)
(***************************************************************************)
UnreadBytes == SubSeq(written, Len(delivered) + 1, Len(written))

Wrapped(q) == q.writePos < q.readPos \/ full(q)

\* Indices (from 1) of the slots that hold unread bytes.
UnreadSlots(q) ==
    IF Wrapped(q) THEN ((q.readPos + 1)..Cap(q)) \cup (1..q.writePos)
                  ELSE (q.readPos + 1)..q.len

(***************************************************************************)
(* C28. Bounded occupancy: in every reachable state of a pipe of capacity  *)
(* C, readPos and writePos are in [0, C), the logical length is at most C  *)
(* and the number of unread bytes is between 0 and C; and no step changes  *)
(* a slot that holds an unread byte.                                       *)
(***************************************************************************)
Bounded ==
    /\ Cap(p) >= 1
    /\ p.readPos \in 0..(Cap(p) - 1)
    /\ p.writePos \in 0..(Cap(p) - 1)
    /\ p.len \in 0..Cap(p)
    /\ Unread \in 0..Cap(p)
    /\ Cardinality(UnreadSlots(p)) = Unread

C28_BoundedOccupancy ==
    /\ []Bounded
    /\ [][\A i \in UnreadSlots(p) : p'.buffer[i] = p.buffer[i]]_vars

\* A Write of one byte has just filled the slot before the unread bytes.
C28_Witness ==
    /\ WriteReturned /\ ret.len = 1 /\ ret.n = 1
    /\ full(p) /\ p.readPos > 0 /\ Unread = Cap(p) /\ Cap(p) = MaxCap

(***************************************************************************)
(* C29. Full and empty are told apart without off-by-one: empty() holds    *)
(* exactly when no byte is unread, full() exactly when C bytes are unread, *)
(* and they never hold together.                                           *)
(***************************************************************************)
C29_FullEmptyExact ==
    /\ empty(p) <=> Unread = 0
    /\ full(p) <=> Unread = Cap(p)
    /\ ~(empty(p) /\ full(p))

\* Full with both cursors level in the middle of the storage.
C29_Witness ==
    /\ WriteReturned /\ ret.len = 2 /\ ret.n = 2
    /\ full(p) /\ ~empty(p) /\ p.readPos = p.writePos /\ p.readPos > 0
    /\ Unread = Cap(p)

(***************************************************************************)
(* C30. Layout of the buffer: when writePos >= readPos the unread bytes    *)
(* are exactly those stored from readPos to the logical length, otherwise  *)
(* those stored in [readPos, C) followed by those in [0, writePos).        *)
(* This is the claim as made; it fails on a full buffer whose cursors are  *)
(* level at a position other than 0.                                       *)
(***************************************************************************)
StoredAsClaimed(q) ==
    IF q.writePos >= q.readPos
      THEN Slice(q.buffer, q.readPos, q.len)
      ELSE Slice(q.buffer, q.readPos, Cap(q)) \o Slice(q.buffer, 0, q.writePos)

C30_LayoutByCursorOrder == StoredAsClaimed(p) = UnreadBytes

(***************************************************************************)
(* C30, amended.  When the unread bytes wrap (writePos < readPos, or       *)
(* writePos = readPos on a full buffer) they are exactly the bytes stored  *)
(* in [readPos, C) followed by those in [0, writePos), and the logical     *)
(* length is C; otherwise they are exactly the bytes stored from readPos   *)
(* to the logical length.                                                  *)
(***************************************************************************)
Stored(q) ==
    IF Wrapped(q)
      THEN Slice(q.buffer, q.readPos, Cap(q)) \o Slice(q.buffer, 0, q.writePos)
      ELSE Slice(q.buffer, q.readPos, q.len)

C30_Layout ==
    /\ Stored(p) = UnreadBytes
    /\ Wrapped(p) => p.len = Cap(p)

C30_Witness ==
    /\ full(p) /\ p.readPos = p.writePos /\ p.readPos > 0
    /\ StoredAsClaimed(p) # UnreadBytes
    /\ Stored(p) = UnreadBytes /\ Len(UnreadBytes) = MaxCap

(***************************************************************************)
(* C31. The two buffer encodings are functionally identical: given the     *)
(* same chunk operation in corresponding states, the ring of C+1 slots and *)
(* the pipe's length-tracking buffer return the same count and the same    *)
(* bytes, and give the same empty and full answers.                        *)
(* This is the claim as made; it fails because the pipe's chunk operations *)
(* stop at the end of a contiguous region and the ring's do not.           *)
(***************************************************************************)
SameAnswers ==
    /\ empty(p) <=> ringBuffer_empty(ring)
    /\ full(p) <=> ringBuffer_full(ring)

ContiguousFree(q) ==
    (IF q.writePos < q.readPos THEN q.readPos ELSE Cap(q)) - q.writePos

ChunkAgrees ==
    /\ SameAnswers
    /\ chunk.rn = chunk.pn /\ chunk.rdata = chunk.pdata
    /\ chunk.pn <= chunk.rnAll
    /\ chunk.pdata = SubSeq(chunk.rdataAll, 1, chunk.pn)
    /\ chunk.op # "none" => chunk.pn >= 1
    /\ ringBuffer_read(ring, Cap(p)).data = UnreadBytes

C32_ReadNeverZeroNil ==
    ReadReturned =>
        /\ ret.err = NoErr => ret.n >= 1 /\ Len(ret.data) = ret.n
        /\ ret.err # NoErr => ret.n = 0 /\ ret.data = <<>>

\* The last byte, read after the writer closed, by a Read that had waited.
C32_Witness ==
    /\ ReadReturned /\ ret.err = NoErr /\ ret.n = 1 /\ ret.len = MaxDst
    /\ ret.waited /\ p.writerClosed /\ ~p.readerClosed /\ empty(p)

(***************************************************************************)
(* C33. No byte is accepted after a close: a step taken in a state where   *)
(* readerClosed or writerClosed is set accepts no byte, leaves the stored  *)
(* bytes as they are and does not increase the number of unread bytes;     *)
(* this covers the Write that was parked or woken when the close happened. *)
(***************************************************************************)
C33_NoAcceptAfterClose ==
    [][~Open => /\ written' = written
                /\ p'.buffer = p.buffer
                /\ p'.writePos = p.writePos
                /\ Len(written') - Len(delivered') <= Unread]_vars

\* A Write of 3 that had waited with 2 bytes accepted fails after the
\* writer side closed, although the buffer has been drained.
C33_Witness ==
    /\ WriteReturned /\ ret.waited /\ ret.err = ErrClosedPipe
    /\ ret.n = 2 /\ ret.len = 3
    /\ p.writerClosed /\ ~p.readerClosed /\ empty(p) /\ Len(written) = 2

(***************************************************************************)
(* C34. The error given to the writer's own CloseWithError(e) is never     *)
(* returned by Write.  With the reader side open and the writer side       *)
(* closed with a custom error e, a Write with a non-empty payload, begun   *)
(* after the close or waiting when it happened, fails with                 *)
(* io.ErrClosedPipe, and a Read that finds the buffer empty returns e.     *)
(***************************************************************************)
WriterClosedWith ==
    /\ p.writerClosed /\ ~p.readerClosed
    /\ firstCWE.writer \in CustomErrs

C34_OwnErrorNotReturned ==
    /\ (WriteReturned /\ WriterClosedWith) =>
          /\ ret.err = ErrClosedPipe
          /\ ret.err # firstCWE.writer
          /\ ret.n < ret.len
    /\ (ReadReturned /\ WriterClosedWith /\ Found = 0) =>
          ret.n = 0 /\ ret.err = firstCWE.writer

\* A Write that was waiting when the writer side closed with e1.
C34_Witness ==
    /\ WriteReturned /\ WriterClosedWith /\ ret.waited
    /\ firstCWE.writer = "e1" /\ p.readerClosedErr = "e1"
    /\ ret.err = ErrClosedPipe /\ full(p)

(***************************************************************************)
(* C35. Two concurrent writers keep the stream consistent.  Under          *)
(* TwoWriterSpec the stream of accepted bytes only grows at its end and    *)
(* holds no byte twice; what the reader has been given is a prefix of it   *)
(* and the rest is what the buffer stores, so no byte is lost, duplicated  *)
(* or overwritten.  The bytes of each payload that are in the stream are   *)
(* the payload's first n bytes in payload order, n being the count the     *)
(* call has reached or returns; a Write that returns without having        *)
(* waited has put them at the end of the stream in one piece.  The         *)
(* witness is a payload whose bytes are not contiguous in the stream.      *)
(***************************************************************************)
\* The bytes of the payload start..start+len-1 that are in s are its first
\* n bytes, in payload order.
AcceptedInOrder(s, start, n, len) ==
    LET InPayload(v) == v \in start..(start + len - 1)
    IN  SelectSeq(s, InPayload) = [i \in 1..n |-> start + i - 1]

\* First byte of the payload of w's call: a call in progress holds the
\* rest of its payload in cur[w].b, a call about to begin takes fresh bytes.
PayloadStart(w) ==
    IF pc[w] = "idle" THEN nextVal + 1 ELSE cur[w].b[1] - cur[w].n

StreamConsistent ==
    /\ IsPrefix(delivered, written)
    /\ Stored(p) = UnreadBytes
    /\ \A i, j \in 1..Len(written) : i # j => written[i] # written[j]
    /\ \A w \in AllWriters :
          pc[w] # "idle" =>
            AcceptedInOrder(written, PayloadStart(w), cur[w].n, cur[w].len)

C35_TwoWritersInterleave ==
    /\ []StreamConsistent
    /\ [][/\ IsPrefix(written, written')
          /\ IsPrefix(delivered, delivered')
          /\ \A w \in AllWriters :
                (ret'.op = "Write" /\ ret'.by = w /\ ret'.len > 0) =>
                  /\ AcceptedInOrder(written', PayloadStart(w),
                                     ret'.n, ret'.len)
                  /\ ~ret'.waited =>
                        written' = written \o
                          [i \in 1..ret'.n |-> nextVal + i]]_vars

\* W1's payload <<1, 2>> with W2's byte 3 between its two bytes.
C35_Witness ==
    /\ written = <<1, 3, 2>> /\ delivered = <<1, 3>>
    /\ ret.op = "Write" /\ ret.by = W1 /\ ret.waited
    /\ ret.n = 2 /\ ret.len = 2 /\ ret.err = NoErr
    /\ Open

=============================================================================
